---- MODULE Spec2Model ----
(***************************************************************************)
(* Token-transfer pipeline of the Stacks wallet: prepareTransaction,       *)
(* generateTransaction and broadcastTransaction, run as asynchronous       *)
(* invocations against a chain whose state may change between two awaits.  *)
(* The reducer of the app's own state is modelled beside it.               *)
(***************************************************************************)
EXTENDS Integers, Sequences, FiniteSets, TLC

VARIABLES
    utxoSet,      \* chain: values of the sender's unspent outputs
    feeRate,      \* chain: relay fee rate used by estimateTokenTransfer
    stxBalance,   \* chain: the sender's token balance
    lockBlock,    \* chain: the sender's lock_transfer_block_id
    height,       \* chain: current block height
    changes,      \* number of chain changes so far
    hist,         \* the chain states that have held so far, where the
                  \* history is recorded (empty where it is not)
    pc,           \* per invocation: the await it is suspended at
    req,          \* per invocation: the arguments of the call
    loc,          \* per invocation: the local constants assigned so far
    out,          \* per invocation: how the returned promise settled
    log,          \* per invocation: the external calls issued, in order
    app,          \* the state the app reducer returned last
    dispatched    \* the type of the action the reducer was given last

vars == <<utxoSet, feeRate, stxBalance, lockBlock, height, changes, hist,
          pc, req, loc, out, log, app, dispatched>>
appVars == <<app, dispatched>>
chainVars == <<utxoSet, feeRate, stxBalance, lockBlock, height, changes, hist>>

----------------------------------------------------------------------------
(* Bounds of the model *)

MaxTokens == 2
MaxHeight == 2
MaxChainChanges == 1
MaxTime == 4

ProcIds == {1, 2}

UtxoLists == { <<>>, <<5945>>, <<10000>>, <<10000, 2000000>> }
FeeRates == {1, 100}
Amounts == 1..MaxTokens
SenderAddresses == {"SPsender", "not-c32"}
RecipientAddresses == {"SPrecipient", "not-c32"}
SignedTxs == {"0100beef", "02cafe00"}
RawTxs == SignedTxs \cup {"0100bee", "xyz"}
Bodies == {"Transaction submitted. ID: abc", "TRANSACTION SUBMITTED",
           "Invalid transaction format", "transaction submit", ""}

----------------------------------------------------------------------------
(* JavaScript values that can be thrown, and reading .message from them *)

\* an Error object of class `name` (Error, TypeError, FetchError, ...)
ErrorOf(name, m) == [kind |-> "Error", name |-> name, text |-> m]
ErrorObj(m) == ErrorOf("Error", m)
StringVal(s) == [kind |-> "string", name |-> "", text |-> s]
Undefined == [kind |-> "undefined", name |-> "", text |-> ""]

\* what a lower layer may throw or reject with: an Error subclass instance,
\* a bare string, nothing at all
Throwables == {ErrorOf("FetchError", "connect ECONNREFUSED"),
               StringVal("denied by the user"), Undefined}

\* e.message: an Error has one, a string has none (undefined); reading a
\* property of undefined/null is itself a TypeError.
CanReadMessage(e) == e.kind # "undefined"
GetMessage(e) == IF e.kind = "Error" THEN StringVal(e.text) ELSE Undefined
TypeErrorOnRead ==
    ErrorOf("TypeError", "Cannot read property 'message' of undefined")

\* new Error(v): the message is "" when v is undefined
NewError(v) == IF v.kind = "undefined" THEN ErrorObj("") ELSE ErrorObj(v.text)

\* a constructor call that completes
Constructed == [kind |-> "ok", name |-> "", text |-> ""]

Return(v) == [kind |-> "return", value |-> v]
Throw(e) == [kind |-> "throw", value |-> e]
Pending == [kind |-> "pending", value |-> Undefined]

----------------------------------------------------------------------------
(* ERRORS *)

WALLET_TYPES == [LEDGER |-> "wallet/LEDGER", TREZOR |-> "wallet/TREZOR"]

INSUFFICIENT_BTC_BALANCE ==
    [error |-> TRUE, type |-> "INSUFFICIENT_BTC_BALANCE",
     message |-> "Insufficient Bitcoin balance to fund transaction fees."]
PENDING_CONFIRMATIONS ==
    [error |-> TRUE, type |-> "PENDING_CONFIRMATIONS",
     message |-> "Your BTC is still being confirmed. Please try again later."]
INSUFFICIENT_STX_BALANCE ==
    [error |-> TRUE, type |-> "INSUFFICIENT_STX_BALANCE",
     message |-> "Insufficient Stacks balance."]
LOCKED_TOKENS ==
    [error |-> TRUE, type |-> "LOCKED_TOKENS",
     message |-> "Token transfer cannot be safely sent. Tokens have not been unlocked."]
DefaultTransactionErrorMessage == "Token transfer cannot be safely sent."
\* TRANSACTION_ERROR(message = default): the default applies to undefined
TRANSACTION_ERROR(message) ==
    [error |-> TRUE, type |-> "TRANSACTION_ERROR",
     message |-> IF message.kind = "undefined"
                 THEN DefaultTransactionErrorMessage ELSE message.text]

\* tx.error of an object: undefined (falsy) when the object has no such field
HasError(v) == "error" \in DOMAIN v /\ v.error = TRUE

----------------------------------------------------------------------------
(* Helpers of prepareTransaction *)

IsC32(addr) == Len(addr) > 2 /\ SubSeq(addr, 1, 1) = "S"
c32ToB58(addr) == "1" \o SubSeq(addr, 3, Len(addr))
C32Error == ErrorObj("Invalid c32 address: must start with \"S\"")

toBigInt(amount) == amount

RECURSIVE sumUTXOs(_)
sumUTXOs(utxos) ==
    IF utxos = <<>> THEN 0 ELSE Head(utxos) + sumUTXOs(Tail(utxos))

\* transactions.estimateTokenTransfer: transaction size, which grows with the
\* number of inputs, times the fee rate
estimateTokenTransfer(numUTXOs, rate) == rate * (297 + 148 * numUTXOs)

Surcharge == 5500

compareTo(a, b) == IF a < b THEN -1 ELSE IF a > b THEN 1 ELSE 0

\* mutant: the shortfall subtracted the wrong way round
InsufficientBtcSwapped(estimate, btcBalance) ==
    [error |-> TRUE, type |-> INSUFFICIENT_BTC_BALANCE.type,
     message |-> INSUFFICIENT_BTC_BALANCE.message,
     estimate |-> estimate, btcBalance |-> btcBalance,
     difference |-> btcBalance - estimate]

InsufficientBtc(estimate, btcBalance) ==
    [error |-> TRUE, type |-> INSUFFICIENT_BTC_BALANCE.type,
     message |-> INSUFFICIENT_BTC_BALANCE.message,
     estimate |-> estimate, btcBalance |-> btcBalance,
     difference |-> estimate - btcBalance]

PreparedTransfer(l) ==
    [senderBtcAddress |-> l.senderBtcAddress,
     recipientBtcAddress |-> l.recipientBtcAddress,
     tokenType |-> "STACKS",
     tokenAmount |-> l.tokenAmount,
     utxos |-> l.utxos,
     numUTXOs |-> l.numUTXOs,
     estimate |-> l.estimate,
     btcBalance |-> l.btcBalance,
     accountStatus |-> l.accountStatus,
     currentAccountBalance |-> l.currentAccountBalance,
     blockHeight |-> l.blockHeight]

\* mutant: the lock check moved in front of the other two
CheckErrorsLockFirst(l) ==
    IF l.accountStatus.lock_transfer_block_id > l.blockHeight
    THEN LOCKED_TOKENS
    ELSE IF l.btcBalance < l.estimate
    THEN InsufficientBtc(l.estimate, l.btcBalance)
    ELSE IF compareTo(l.currentAccountBalance, l.tokenAmount) < 0
    THEN INSUFFICIENT_STX_BALANCE
    ELSE PreparedTransfer(l)

\* mutant: the comparisons reject the boundary values too
CheckErrorsStrict(l) ==
    IF l.btcBalance <= l.estimate
    THEN InsufficientBtc(l.estimate, l.btcBalance)
    ELSE IF compareTo(l.currentAccountBalance, l.tokenAmount) <= 0
    THEN INSUFFICIENT_STX_BALANCE
    ELSE IF l.accountStatus.lock_transfer_block_id >= l.blockHeight
    THEN LOCKED_TOKENS
    ELSE PreparedTransfer(l)

\* mutant: the lock check left out
CheckErrorsNoLock(l) ==
    IF l.btcBalance < l.estimate
    THEN InsufficientBtc(l.estimate, l.btcBalance)
    ELSE IF compareTo(l.currentAccountBalance, l.tokenAmount) < 0
    THEN INSUFFICIENT_STX_BALANCE
    ELSE PreparedTransfer(l)

\* mutant: funding that is there but too small is reported as still confirming
CheckErrorsPending(l) ==
    IF l.btcBalance < l.estimate
    THEN IF l.btcBalance > 0
         THEN PENDING_CONFIRMATIONS
         ELSE InsufficientBtc(l.estimate, l.btcBalance)
    ELSE IF compareTo(l.currentAccountBalance, l.tokenAmount) < 0
    THEN INSUFFICIENT_STX_BALANCE
    ELSE IF l.accountStatus.lock_transfer_block_id > l.blockHeight
    THEN LOCKED_TOKENS
    ELSE PreparedTransfer(l)

\* "check for our errors": the value prepareTransaction returns once all
\* reads have resolved
CheckErrors(l) ==
    IF l.btcBalance < l.estimate
    THEN InsufficientBtc(l.estimate, l.btcBalance)
    ELSE IF compareTo(l.currentAccountBalance, l.tokenAmount) < 0
    THEN INSUFFICIENT_STX_BALANCE
    ELSE IF l.accountStatus.lock_transfer_block_id > l.blockHeight
    THEN LOCKED_TOKENS
    ELSE PreparedTransfer(l)

----------------------------------------------------------------------------
(* Helpers of generateTransaction *)

\* mutant: every wallet gets the Ledger signer
SignerAlwaysLedger(walletType) == "LedgerSigner"

\* the signer class generateTransaction instantiates
SignerFor(walletType) ==
    IF walletType = WALLET_TYPES.LEDGER THEN "LedgerSigner" ELSE "TrezorSigner"

\* mutant: only the funding error stops generateTransaction
ReturnsEarlyFundingOnly(tx) ==
    HasError(tx) /\ tx.type = INSUFFICIENT_BTC_BALANCE.type

\* "if we have an error, return it": generateTransaction stops before the signer
ReturnsEarly(tx) == HasError(tx)

\* mutant: the fee reported without the surcharge
SignedTransactionRawFee(tx, rawTx) ==
    [fee |-> tx.estimate - Surcharge, rawTx |-> rawTx]

\* what generateTransaction returns on success
SignedTransaction(tx, rawTx) == [fee |-> tx.estimate, rawTx |-> rawTx]

\* the catch block of generateTransaction
GenerateCatch(e) ==
    IF CanReadMessage(e)
    THEN Return(TRANSACTION_ERROR(GetMessage(e)))
    ELSE Throw(TypeErrorOnRead)

\* an exception raised inside prepareTransaction: it rejects prepareTransaction's
\* promise, and the try block of generateTransaction catches it
Raise(r, e) ==
    IF r.entry = "prepareTransaction" THEN Throw(e) ELSE GenerateCatch(e)

----------------------------------------------------------------------------
(* Helpers of broadcastTransaction *)

UpperCase == "ABCDEFGHIJKLMNOPQRSTUVWXYZ"
LowerCase == "abcdefghijklmnopqrstuvwxyz"
HexDigits == "0123456789abcdef"

CharAt(s, i) == SubSeq(s, i, i)

\* 0-based position of the one-character string c in s, -1 when absent
PosIn(s, c) ==
    IF \E i \in 1..Len(s) : CharAt(s, i) = c
    THEN (CHOOSE i \in 1..Len(s) :
            CharAt(s, i) = c /\ \A j \in 1..(i - 1) : CharAt(s, j) # c) - 1
    ELSE -1

RECURSIVE toLowerCase(_)
toLowerCase(s) ==
    IF s = "" THEN ""
    ELSE LET c == CharAt(s, 1)
             k == PosIn(UpperCase, c)
         IN (IF k >= 0 THEN CharAt(LowerCase, k + 1) ELSE c)
              \o toLowerCase(SubSeq(s, 2, Len(s)))

\* String.prototype.indexOf: first 0-based position of needle, -1 when absent
indexOf(s, needle) ==
    LET starts == {i \in 1..(Len(s) - Len(needle) + 1) :
                     SubSeq(s, i, i + Len(needle) - 1) = needle}
    IN IF starts = {} THEN -1
       ELSE (CHOOSE i \in starts : \A j \in starts : i <= j) - 1

\* the success test on the relay's response text
IsSubmitted(text) == indexOf(toLowerCase(text), "transaction submitted") >= 0

\* btc.Transaction.fromHex: the bytes of a hex string; it throws on text that
\* is no serialized transaction
IsTxHex(rawTx) ==
    /\ Len(rawTx) >= 8
    /\ Len(rawTx) % 2 = 0
    /\ \A i \in 1..Len(rawTx) : PosIn(HexDigits, CharAt(rawTx, i)) >= 0
fromHex(rawTx) ==
    [i \in 1..(Len(rawTx) \div 2) |->
        16 * PosIn(HexDigits, CharAt(rawTx, 2 * i - 1))
           + PosIn(HexDigits, CharAt(rawTx, 2 * i))]
FromHexError == ErrorOf("RangeError", "Index out of range")

RECURSIVE SumBytes(_)
SumBytes(bytes) ==
    IF bytes = <<>> THEN 0 ELSE Head(bytes) + SumBytes(Tail(bytes))

\* Transaction.getHash: a 32-byte digest of the transaction (a stand-in for
\* the double SHA-256, which the pipeline treats as opaque)
getHash(bytes) == [i \in 1..32 |-> (SumBytes(bytes) + 37 * i) % 256]

\* Buffer.reverse
reverse(bytes) == [i \in 1..Len(bytes) |-> bytes[Len(bytes) + 1 - i]]

\* Buffer.toString("hex")
RECURSIVE toHexString(_)
toHexString(bytes) ==
    IF bytes = <<>> THEN ""
    ELSE CharAt(HexDigits, (Head(bytes) \div 16) + 1)
           \o CharAt(HexDigits, (Head(bytes) % 16) + 1)
           \o toHexString(Tail(bytes))

RejectionText(text) == "Broadcast transaction failed with message: " \o text

\* mutant: the caught value is thrown again as it is
BroadcastCatchRethrow(e) == Throw(e)

\* the catch block of broadcastTransaction: throw new Error(e.message)
BroadcastCatch(e) ==
    IF CanReadMessage(e)
    THEN Throw(NewError(GetMessage(e)))
    ELSE Throw(TypeErrorOnRead)

\* broadcastTransaction from the response text on
AfterText(rawTx, text) ==
    IF IsSubmitted(text)
    THEN IF IsTxHex(rawTx)
         THEN Return(StringVal(toHexString(reverse(getHash(fromHex(rawTx))))))
         ELSE BroadcastCatch(FromHexError)
    ELSE BroadcastCatch(StringVal(RejectionText(text)))

----------------------------------------------------------------------------
(* The app reducer *)

ACCEPT_TERMS == "app/ACCEPT_TERMS"
UPDATE_APP_TIME == "app/UPDATE_APP_TIME"
APP_IDLE == "app/APP_IDLE"
TOGGLE_MODAL == "app/TOGGLE_MODAL"
TOGGLE_MODAL_CLOSE == "app/TOGGLE_MODAL_CLOSE"
TOGGLE_MODAL_KEEP_OPEN == "app/TOGGLE_MODAL_KEEP_OPEN"

\* the types the store hands to the reducer: its own, two it exports but has
\* no case for, and those of the store and of other reducers
ActionTypes ==
    {ACCEPT_TERMS, UPDATE_APP_TIME, APP_IDLE, TOGGLE_MODAL, TOGGLE_MODAL_CLOSE,
     TOGGLE_MODAL_KEEP_OPEN, "@@redux/INIT", "wallet/ERASE_SEED"}
NoAction == ""

\* what Date.now() may return, counted from the time the module was loaded
Times == 0..MaxTime

initialState == [terms |-> FALSE, keepModalOpen |-> FALSE, appTime |-> 0]

\* mutant: the break after the TOGGLE_MODAL_KEEP_OPEN case is missing
reducerFallsThrough(state, type, now) ==
    LET draft == [state EXCEPT !.appTime = now]
    IN CASE type = TOGGLE_MODAL ->
              [draft EXCEPT !.keepModalOpen = ~draft.keepModalOpen]
         [] type = TOGGLE_MODAL_CLOSE -> [draft EXCEPT !.keepModalOpen = FALSE]
         [] type = TOGGLE_MODAL_KEEP_OPEN ->
              [draft EXCEPT !.keepModalOpen = TRUE, !.terms = TRUE]
         [] type = ACCEPT_TERMS -> [draft EXCEPT !.terms = TRUE]
         [] OTHER -> draft

\* reducer(state, { type, payload }) with Date.now() = now
reducer(state, type, now) ==
    LET draft == [state EXCEPT !.appTime = now]
    IN CASE type = TOGGLE_MODAL ->
              [draft EXCEPT !.keepModalOpen = ~draft.keepModalOpen]
         [] type = TOGGLE_MODAL_CLOSE -> [draft EXCEPT !.keepModalOpen = FALSE]
         [] type = TOGGLE_MODAL_KEEP_OPEN -> [draft EXCEPT !.keepModalOpen = TRUE]
         [] type = ACCEPT_TERMS -> [draft EXCEPT !.terms = TRUE]
         [] OTHER -> draft

----------------------------------------------------------------------------
(* State *)

NoTx == [tokenType |-> ""]
NoCause == [kind |-> "none", name |-> "", text |-> ""]

NoReq == [entry |-> "none", senderAddress |-> "", recipientAddress |-> "",
          amount |-> 0, walletType |-> "", memo |-> "", rawTx |-> ""]

NoLoc == [senderBtcAddress |-> "", recipientBtcAddress |-> "",
          tokenAmount |-> 0, utxos |-> <<>>, numUTXOs |-> 0,
          rawEstimate |-> 0, estimate |-> 0,
          btcBalance |-> 0, accountStatus |-> [lock_transfer_block_id |-> 0],
          currentAccountBalance |-> 0, blockHeight |-> 0,
          tx |-> NoTx, signer |-> "", response |-> Undefined,
          text |-> Undefined, cause |-> NoCause]

\* what the four reads of prepareTransaction observe of the chain
ChainState(utxos, balance, lock, h) ==
    [utxos |-> utxos, balance |-> balance, lock |-> lock, height |-> h]

\* the history after the chain has moved to the given state
Recorded(utxos, balance, lock, h) ==
    IF hist = {} THEN hist ELSE hist \cup {ChainState(utxos, balance, lock, h)}

Init ==
    /\ utxoSet \in UtxoLists
    /\ feeRate \in FeeRates
    /\ stxBalance \in 0..MaxTokens
    /\ lockBlock \in 0..MaxHeight
    /\ height \in 0..MaxHeight
    /\ changes = 0
    /\ hist = {}
    /\ pc = [p \in ProcIds |-> IF p = 1 THEN "idle" ELSE "off"]
    /\ req = [p \in ProcIds |-> NoReq]
    /\ loc = [p \in ProcIds |-> NoLoc]
    /\ out = [p \in ProcIds |-> Pending]
    /\ log = [p \in ProcIds |-> <<>>]
    /\ app = initialState
    /\ dispatched = NoAction

\* one invocation on a funded, unlocked account whose chain history is
\* recorded
InitDrift ==
    /\ utxoSet \in UtxoLists
    /\ feeRate = 1
    /\ stxBalance \in 0..MaxTokens
    /\ lockBlock = 0
    /\ height \in 0..MaxHeight
    /\ changes = 0
    /\ hist = {ChainState(utxoSet, stxBalance, lockBlock, height)}
    /\ pc = [p \in ProcIds |-> IF p = 1 THEN "idle" ELSE "off"]
    /\ req = [p \in ProcIds |-> NoReq]
    /\ loc = [p \in ProcIds |-> NoLoc]
    /\ out = [p \in ProcIds |-> Pending]
    /\ log = [p \in ProcIds |-> <<>>]
    /\ app = initialState
    /\ dispatched = NoAction

\* two sends about to be triggered for the same unlocked account, which
\* holds one token and one output
InitConcurrent ==
    /\ utxoSet = <<10000>>
    /\ feeRate \in FeeRates
    /\ stxBalance = 1
    /\ lockBlock = 0
    /\ height = 1
    /\ changes = 0
    /\ hist = {}
    /\ pc = [p \in ProcIds |-> "idle"]
    /\ req = [p \in ProcIds |-> NoReq]
    /\ loc = [p \in ProcIds |-> NoLoc]
    /\ out = [p \in ProcIds |-> Pending]
    /\ log = [p \in ProcIds |-> <<>>]
    /\ app = initialState
    /\ dispatched = NoAction

Settle(p, o) ==
    /\ pc' = [pc EXCEPT ![p] = "done"]
    /\ out' = [out EXCEPT ![p] = o]

Suspend(p, at) ==
    /\ pc' = [pc EXCEPT ![p] = at]
    /\ out' = out

Logged(p, events) == log' = [log EXCEPT ![p] = log[p] \o events]

----------------------------------------------------------------------------
(* The chain moves on its own *)

NewBlock ==
    /\ changes < MaxChainChanges
    /\ height < MaxHeight
    /\ height' = height + 1
    /\ changes' = changes + 1
    /\ hist' = Recorded(utxoSet, stxBalance, lockBlock, height')
    /\ UNCHANGED <<utxoSet, feeRate, stxBalance, lockBlock, pc, req, loc, out, log, appVars>>

\* a transfer sent from the same account elsewhere confirms: it consumes an
\* output and tokens
ExternalSpend ==
    /\ changes < MaxChainChanges
    /\ utxoSet # <<>>
    /\ stxBalance > 0
    /\ utxoSet' = Tail(utxoSet)
    /\ stxBalance' = stxBalance - 1
    /\ changes' = changes + 1
    /\ hist' = Recorded(utxoSet', stxBalance', lockBlock, height)
    /\ UNCHANGED <<feeRate, lockBlock, height, pc, req, loc, out, log, appVars>>

FeeRateChange ==
    /\ changes < MaxChainChanges
    /\ \E r \in FeeRates \ {feeRate} : feeRate' = r
    /\ changes' = changes + 1
    /\ UNCHANGED <<utxoSet, stxBalance, lockBlock, height, hist,
                   pc, req, loc, out, log, appVars>>

----------------------------------------------------------------------------
(* prepareTransaction, alone or awaited inside generateTransaction's try *)

\* mutant: a send is refused to start while another one is in flight
StartPrepareExclusive(p) ==
    /\ pc[p] = "idle"
    /\ \A q \in ProcIds \ {p} : pc[q] \in {"idle", "done", "off"}
    /\ \E entry \in {"prepareTransaction", "generateTransaction"},
          s \in SenderAddresses, r \in RecipientAddresses,
          a \in Amounts, w \in {WALLET_TYPES.LEDGER, WALLET_TYPES.TREZOR} :
        LET rq == [entry |-> entry, senderAddress |-> s, recipientAddress |-> r,
                   amount |-> a, walletType |-> w, memo |-> "", rawTx |-> ""]
        IN /\ req' = [req EXCEPT ![p] = rq]
           /\ IF ~IsC32(s)
              THEN /\ Settle(p, Raise(rq, C32Error))
                   /\ Logged(p, <<"c32ToB58">>)
                   /\ loc' = [loc EXCEPT ![p].cause = C32Error]
              ELSE IF ~IsC32(r)
              THEN /\ Settle(p, Raise(rq, C32Error))
                   /\ Logged(p, <<"c32ToB58", "c32ToB58">>)
                   /\ loc' = [loc EXCEPT ![p].cause = C32Error]
              ELSE /\ loc' = [loc EXCEPT ![p].senderBtcAddress = c32ToB58(s),
                                         ![p].recipientBtcAddress = c32ToB58(r),
                                         ![p].tokenAmount = toBigInt(a)]
                   /\ Suspend(p, "getUTXOs")
                   /\ Logged(p, <<"c32ToB58", "c32ToB58", "getUTXOs">>)
    /\ UNCHANGED <<appVars, chainVars>>

\* the call, up to the first await (getUTXOs)
StartPrepare(p) ==
    /\ pc[p] = "idle"
    /\ \E entry \in {"prepareTransaction", "generateTransaction"},
          s \in SenderAddresses, r \in RecipientAddresses,
          a \in Amounts, w \in {WALLET_TYPES.LEDGER, WALLET_TYPES.TREZOR} :
        LET rq == [entry |-> entry, senderAddress |-> s, recipientAddress |-> r,
                   amount |-> a, walletType |-> w, memo |-> "", rawTx |-> ""]
        IN /\ req' = [req EXCEPT ![p] = rq]
           /\ IF ~IsC32(s)
              THEN /\ Settle(p, Raise(rq, C32Error))
                   /\ Logged(p, <<"c32ToB58">>)
                   /\ loc' = [loc EXCEPT ![p].cause = C32Error]
              ELSE IF ~IsC32(r)
              THEN /\ Settle(p, Raise(rq, C32Error))
                   /\ Logged(p, <<"c32ToB58", "c32ToB58">>)
                   /\ loc' = [loc EXCEPT ![p].cause = C32Error]
              ELSE /\ loc' = [loc EXCEPT ![p].senderBtcAddress = c32ToB58(s),
                                         ![p].recipientBtcAddress = c32ToB58(r),
                                         ![p].tokenAmount = toBigInt(a)]
                   /\ Suspend(p, "getUTXOs")
                   /\ Logged(p, <<"c32ToB58", "c32ToB58", "getUTXOs">>)
    /\ UNCHANGED <<appVars, chainVars>>

\* mutant: the account status is requested before the fee estimate
GetUTXOsResolvesThenStatus(p) ==
    /\ pc[p] = "getUTXOs"
    /\ loc' = [loc EXCEPT ![p].utxos = utxoSet, ![p].numUTXOs = Len(utxoSet)]
    /\ Suspend(p, "getAccountStatus")
    /\ Logged(p, <<"getAccountStatus">>)
    /\ UNCHANGED <<appVars, chainVars, req>>

\* getUTXOs resolves; estimateTokenTransfer is called
GetUTXOsResolves(p) ==
    /\ pc[p] = "getUTXOs"
    /\ loc' = [loc EXCEPT ![p].utxos = utxoSet, ![p].numUTXOs = Len(utxoSet)]
    /\ Suspend(p, "estimateTokenTransfer")
    /\ Logged(p, <<"estimateTokenTransfer">>)
    /\ UNCHANGED <<appVars, chainVars, req>>

\* estimateTokenTransfer resolves; getAccountStatus is called
EstimateResolves(p) ==
    /\ pc[p] = "estimateTokenTransfer"
    /\ LET raw == estimateTokenTransfer(loc[p].numUTXOs, feeRate)
       IN loc' = [loc EXCEPT ![p].rawEstimate = raw,
                             ![p].estimate = raw + Surcharge,
                             ![p].btcBalance = sumUTXOs(loc[p].utxos)]
    /\ Suspend(p, "getAccountStatus")
    /\ Logged(p, <<"getAccountStatus">>)
    /\ UNCHANGED <<appVars, chainVars, req>>

\* mutant: one call returns the account's status and balance together
GetAccountStatusResolvesWithBalance(p) ==
    /\ pc[p] = "getAccountStatus"
    /\ loc' = [loc EXCEPT
                 ![p].accountStatus = [lock_transfer_block_id |-> lockBlock],
                 ![p].currentAccountBalance = stxBalance]
    /\ Suspend(p, "getBlockHeight")
    /\ Logged(p, <<"getBlockHeight">>)
    /\ UNCHANGED <<appVars, chainVars, req>>

\* getAccountStatus resolves; getAccountBalance is called
GetAccountStatusResolves(p) ==
    /\ pc[p] = "getAccountStatus"
    /\ loc' = [loc EXCEPT
                 ![p].accountStatus = [lock_transfer_block_id |-> lockBlock]]
    /\ Suspend(p, "getAccountBalance")
    /\ Logged(p, <<"getAccountBalance">>)
    /\ UNCHANGED <<appVars, chainVars, req>>

\* mutant: the amounts of transfers already prepared are held back from the
\* balance the next validation sees
GetAccountBalanceResolvesReserving(p) ==
    /\ pc[p] = "getAccountBalance"
    /\ LET prepared == {q \in ProcIds \ {p} :
                          loc[q].tx # NoTx /\ ~HasError(loc[q].tx)}
           reserved == IF prepared = {} THEN 0
                       ELSE loc[CHOOSE q \in prepared : TRUE].tokenAmount
       IN loc' = [loc EXCEPT ![p].currentAccountBalance = stxBalance - reserved]
    /\ Suspend(p, "getBlockHeight")
    /\ Logged(p, <<"getBlockHeight">>)
    /\ UNCHANGED <<appVars, chainVars, req>>

\* getAccountBalance resolves; getBlockHeight is called
GetAccountBalanceResolves(p) ==
    /\ pc[p] = "getAccountBalance"
    /\ loc' = [loc EXCEPT ![p].currentAccountBalance = stxBalance]
    /\ Suspend(p, "getBlockHeight")
    /\ Logged(p, <<"getBlockHeight">>)
    /\ UNCHANGED <<appVars, chainVars, req>>

\* mutant: a rejected call is issued again
ReadRejectsRetry(p) ==
    /\ pc[p] \in {"getUTXOs", "estimateTokenTransfer", "getAccountStatus",
                  "getAccountBalance", "getBlockHeight"}
    /\ Logged(p, <<pc[p]>>)
    /\ UNCHANGED <<appVars, chainVars, req, loc, pc, out>>

\* any of the five awaited calls rejects
ReadRejects(p) ==
    /\ pc[p] \in {"getUTXOs", "estimateTokenTransfer", "getAccountStatus",
                  "getAccountBalance", "getBlockHeight"}
    /\ \E e \in Throwables :
        /\ Settle(p, Raise(req[p], e))
        /\ loc' = [loc EXCEPT ![p].cause = e]
    /\ UNCHANGED <<appVars, chainVars, req, log>>

\* getBlockHeight resolves and the gates are evaluated.  prepareTransaction
\* returns; generateTransaction goes on to the signer and makeTokenTransfer.
\* (prepareTransaction always returns an object, so the "if (!tx)" branch of
\* generateTransaction is never taken.)
GetBlockHeightResolves(p) ==
    /\ pc[p] = "getBlockHeight"
    /\ LET l0 == [loc[p] EXCEPT !.blockHeight = height]
           tx == CheckErrors(l0)
           l == [l0 EXCEPT !.tx = tx]
       IN IF req[p].entry = "prepareTransaction"
          THEN /\ loc' = [loc EXCEPT ![p] = l]
               /\ Settle(p, Return(tx))
               /\ log' = log
          ELSE IF ReturnsEarly(tx)
          THEN /\ loc' = [loc EXCEPT ![p] = l]
               /\ Settle(p, Return(tx))
               /\ log' = log
          ELSE \E ctor \in {Constructed} \cup Throwables :
               LET signer == SignerFor(req[p].walletType)
               IN IF ctor = Constructed
                  THEN /\ loc' = [loc EXCEPT ![p] = [l EXCEPT !.signer = signer]]
                       /\ Suspend(p, "makeTokenTransfer")
                       /\ Logged(p, <<"new " \o signer, "makeTokenTransfer">>)
                  ELSE /\ loc' = [loc EXCEPT ![p] = [l EXCEPT !.cause = ctor]]
                       /\ Settle(p, GenerateCatch(ctor))
                       /\ Logged(p, <<"new " \o signer>>)
    /\ UNCHANGED <<appVars, chainVars, req>>

\* makeTokenTransfer resolves with the signed raw transaction
MakeTokenTransferResolves(p) ==
    /\ pc[p] = "makeTokenTransfer"
    /\ \E rawTx \in SignedTxs :
        Settle(p, Return(SignedTransaction(loc[p].tx, rawTx)))
    /\ UNCHANGED <<appVars, chainVars, req, loc, log>>

\* makeTokenTransfer rejects: device unplugged, refused by the user, ...
MakeTokenTransferRejects(p) ==
    /\ pc[p] = "makeTokenTransfer"
    /\ \E e \in Throwables :
        /\ Settle(p, GenerateCatch(e))
        /\ loc' = [loc EXCEPT ![p].cause = e]
    /\ UNCHANGED <<appVars, chainVars, req, log>>

----------------------------------------------------------------------------
(* broadcastTransaction *)

\* the call: postTransaction builds the form and issues the POST
StartBroadcast(p) ==
    /\ pc[p] = "idle"
    /\ \E rawTx \in RawTxs :
        req' = [req EXCEPT ![p] = [NoReq EXCEPT !.entry = "broadcastTransaction",
                                                !.rawTx = rawTx]]
    /\ Suspend(p, "fetch")
    /\ Logged(p, <<"fetch">>)
    /\ UNCHANGED <<appVars, chainVars, loc>>

\* the relay answers; response.text() is called
FetchResolves(p) ==
    /\ pc[p] = "fetch"
    /\ \E body \in Bodies : loc' = [loc EXCEPT ![p].response = StringVal(body)]
    /\ Suspend(p, "text")
    /\ Logged(p, <<"response.text">>)
    /\ UNCHANGED <<appVars, chainVars, req>>

\* the body has been read: success test, hash or rejection
TextResolves(p) ==
    /\ pc[p] = "text"
    /\ loc' = [loc EXCEPT ![p].text = loc[p].response]
    /\ Settle(p, AfterText(req[p].rawTx, loc[p].response.text))
    /\ UNCHANGED <<appVars, chainVars, req, log>>

\* the POST or the reading of the body fails
TransportRejects(p) ==
    /\ pc[p] \in {"fetch", "text"}
    /\ \E e \in Throwables :
        /\ Settle(p, BroadcastCatch(e))
        /\ loc' = [loc EXCEPT ![p].cause = e]
    /\ UNCHANGED <<appVars, chainVars, req, log>>

Next ==
    \/ NewBlock
    \/ ExternalSpend
    \/ FeeRateChange
    \/ \E p \in ProcIds : StartPrepare(p)
    \/ \E p \in ProcIds : GetUTXOsResolves(p)
    \/ \E p \in ProcIds : EstimateResolves(p)
    \/ \E p \in ProcIds : GetAccountStatusResolves(p)
    \/ \E p \in ProcIds : GetAccountBalanceResolves(p)
    \/ \E p \in ProcIds : ReadRejects(p)
    \/ \E p \in ProcIds : GetBlockHeightResolves(p)
    \/ \E p \in ProcIds : MakeTokenTransferResolves(p)
    \/ \E p \in ProcIds : MakeTokenTransferRejects(p)
    \/ \E p \in ProcIds : StartBroadcast(p)
    \/ \E p \in ProcIds : FetchResolves(p)
    \/ \E p \in ProcIds : TextResolves(p)
    \/ \E p \in ProcIds : TransportRejects(p)

Spec == Init /\ [][Next]_vars

SpecDrift == InitDrift /\ [][Next]_vars

----------------------------------------------------------------------------
(* Two sends for the same account.  The chain moves when a spend from the
   account confirms. *)

\* the caller of the pipeline hands the signed transaction on to
\* broadcastTransaction
SendTokensBroadcasts(p) ==
    /\ pc[p] = "done"
    /\ req[p].entry = "generateTransaction"
    /\ out[p].kind = "return"
    /\ "rawTx" \in DOMAIN out[p].value
    /\ req' = [req EXCEPT ![p].entry = "broadcastTransaction",
                          ![p].rawTx = out[p].value.rawTx]
    /\ pc' = [pc EXCEPT ![p] = "fetch"]
    /\ out' = [out EXCEPT ![p] = Pending]
    /\ Logged(p, <<"fetch">>)
    /\ UNCHANGED <<appVars, chainVars, loc>>

NextConcurrent ==
    \/ ExternalSpend
    \/ \E p \in ProcIds : StartPrepare(p)
    \/ \E p \in ProcIds : GetUTXOsResolves(p)
    \/ \E p \in ProcIds : EstimateResolves(p)
    \/ \E p \in ProcIds : GetAccountStatusResolves(p)
    \/ \E p \in ProcIds : GetAccountBalanceResolves(p)
    \/ \E p \in ProcIds : ReadRejects(p)
    \/ \E p \in ProcIds : GetBlockHeightResolves(p)
    \/ \E p \in ProcIds : MakeTokenTransferResolves(p)
    \/ \E p \in ProcIds : MakeTokenTransferRejects(p)
    \/ \E p \in ProcIds : SendTokensBroadcasts(p)
    \/ \E p \in ProcIds : FetchResolves(p)
    \/ \E p \in ProcIds : TextResolves(p)
    \/ \E p \in ProcIds : TransportRejects(p)

SpecConcurrent == InitConcurrent /\ [][NextConcurrent]_vars

----------------------------------------------------------------------------
(* The store dispatches actions to the app reducer *)

Dispatch(type) ==
    /\ \E now \in Times : app' = reducer(app, type, now)
    /\ dispatched' = type
    /\ UNCHANGED <<chainVars, pc, req, loc, out, log>>

NextApp == \E type \in ActionTypes : Dispatch(type)

SpecApp == Init /\ [][NextApp]_vars

----------------------------------------------------------------------------
(* Vocabulary of the properties *)

Range(f) == {f[i] : i \in DOMAIN f}

\* prepareTransaction has returned a value (loc.tx) in invocation p
PrepareReturned(p) == loc[p].tx # NoTx

\* the three gates, on the values an invocation observed
FundingFails(l) == l.btcBalance < l.estimate
SufficiencyFails(l) == l.currentAccountBalance < l.tokenAmount
LockFails(l) == l.accountStatus.lock_transfer_block_id > l.blockHeight

IsType(v, t) == HasError(v) /\ v.type = t

SignerEvents(p) ==
    {i \in DOMAIN log[p] : log[p][i] \in {"new LedgerSigner", "new TrezorSigner"}}

\* prepareTransaction called on its own hands its value to the caller
PrepareHandsOver(p) ==
    req[p].entry = "prepareTransaction" =>
        pc[p] = "done" /\ out[p] = Return(loc[p].tx)

----------------------------------------------------------------------------
(* C1: gate precedence.  The error prepareTransaction returns is that of the
   first failing gate in the order funding, sufficiency, lock status: a
   snapshot failing funding yields INSUFFICIENT_BTC_BALANCE whatever the
   other gates say, one passing funding and failing sufficiency yields
   INSUFFICIENT_STX_BALANCE even when the tokens are locked, and
   LOCKED_TOKENS is returned only when the first two gates pass. *)
C1_GatePrecedence ==
    \A p \in ProcIds :
        PrepareReturned(p) =>
            LET l == loc[p]
                tx == l.tx
            IN /\ PrepareHandsOver(p)
               /\ FundingFails(l) => IsType(tx, "INSUFFICIENT_BTC_BALANCE")
               /\ (~FundingFails(l) /\ SufficiencyFails(l)) =>
                      IsType(tx, "INSUFFICIENT_STX_BALANCE")
               /\ (~FundingFails(l) /\ ~SufficiencyFails(l) /\ LockFails(l)) =>
                      IsType(tx, "LOCKED_TOKENS")

C1_Witness ==
    \E p \in ProcIds :
        /\ req[p].entry = "prepareTransaction"
        /\ PrepareReturned(p)
        /\ FundingFails(loc[p]) /\ LockFails(loc[p])
        /\ out[p].kind = "return"
        /\ IsType(out[p].value, "INSUFFICIENT_BTC_BALANCE")

(* C2: whenever the observed btcBalance is below the estimate,
   prepareTransaction returns the insufficient-funding error carrying the
   estimate, the btcBalance and difference = estimate - btcBalance, whatever
   the other two gates would say. *)
C2_FundingShortfall ==
    \A p \in ProcIds :
        (PrepareReturned(p) /\ FundingFails(loc[p])) =>
            LET l == loc[p]
                tx == l.tx
            IN /\ PrepareHandsOver(p)
               /\ IsType(tx, "INSUFFICIENT_BTC_BALANCE")
               /\ tx.estimate = l.estimate
               /\ tx.btcBalance = l.btcBalance
               /\ tx.difference + tx.btcBalance = tx.estimate
               /\ tx.difference > 0

\* balance 10000, estimate 50000, shortfall 40000, with the other gates failing
C2_Witness ==
    \E p \in ProcIds :
        /\ req[p].entry = "prepareTransaction"
        /\ PrepareReturned(p)
        /\ SufficiencyFails(loc[p]) /\ LockFails(loc[p])
        /\ out[p].kind = "return"
        /\ IsType(out[p].value, "INSUFFICIENT_BTC_BALANCE")
        /\ out[p].value.btcBalance = 10000
        /\ out[p].value.estimate = 50000
        /\ out[p].value.difference = 40000

(* C3: admission completeness.  When all reads have resolved and the
   observed values satisfy btcBalance >= estimate, balance >= tokenAmount
   and lock_transfer_block_id <= blockHeight, prepareTransaction returns an
   object without the error flag, never an error value. *)
C3_AdmissionComplete ==
    \A p \in ProcIds :
        (/\ PrepareReturned(p)
         /\ ~FundingFails(loc[p])
         /\ ~SufficiencyFails(loc[p])
         /\ ~LockFails(loc[p])) =>
            /\ PrepareHandsOver(p)
            /\ ~HasError(loc[p].tx)
            /\ loc[p].tx.tokenType = "STACKS"

\* all three gates pass at their boundary
C3_Witness ==
    \E p \in ProcIds :
        /\ req[p].entry = "prepareTransaction"
        /\ PrepareReturned(p)
        /\ loc[p].btcBalance = loc[p].estimate
        /\ loc[p].currentAccountBalance = loc[p].tokenAmount
        /\ loc[p].accountStatus.lock_transfer_block_id = loc[p].blockHeight
        /\ out[p].kind = "return"
        /\ ~HasError(out[p].value)

(* C4: admission soundness.  A value without the error flag returned by
   prepareTransaction carries values on which every gate passes: its
   btcBalance >= its estimate, its currentAccountBalance >= its tokenAmount,
   its accountStatus.lock_transfer_block_id <= its blockHeight. *)
C4_AdmissionSound ==
    \A p \in ProcIds :
        (PrepareReturned(p) /\ ~HasError(loc[p].tx)) =>
            LET tx == loc[p].tx
            IN /\ tx.btcBalance >= tx.estimate
               /\ tx.currentAccountBalance >= tx.tokenAmount
               /\ tx.accountStatus.lock_transfer_block_id <= tx.blockHeight
               /\ tx.btcBalance = sumUTXOs(tx.utxos)
               /\ tx.numUTXOs = Len(tx.utxos)

C4_Witness ==
    \E p \in ProcIds :
        /\ req[p].entry = "prepareTransaction"
        /\ pc[p] = "done"
        /\ out[p].kind = "return"
        /\ ~HasError(out[p].value)
        /\ out[p].value.btcBalance > out[p].value.estimate
        /\ out[p].value.accountStatus.lock_transfer_block_id < out[p].value.blockHeight

(* C5: no signing without admission.  When validation returns an error
   inside generateTransaction, no signer is constructed, makeTokenTransfer
   is not called, and generateTransaction returns that very error; in
   particular tokens observed locked never reach makeTokenTransfer. *)
C5_NoSigningWithoutAdmission ==
    \A p \in ProcIds :
        /\ (req[p].entry = "generateTransaction" /\ PrepareReturned(p)
               /\ HasError(loc[p].tx)) =>
              /\ SignerEvents(p) = {}
              /\ "makeTokenTransfer" \notin Range(log[p])
              /\ pc[p] = "done"
              /\ out[p] = Return(loc[p].tx)
        /\ (PrepareReturned(p) /\ LockFails(loc[p])) =>
              /\ "makeTokenTransfer" \notin Range(log[p])
              /\ loc[p].signer = ""

C5_Witness ==
    \E p \in ProcIds :
        /\ req[p].entry = "generateTransaction"
        /\ PrepareReturned(p)
        /\ ~FundingFails(loc[p]) /\ ~SufficiencyFails(loc[p]) /\ LockFails(loc[p])
        /\ pc[p] = "done"
        /\ out[p] = Return(LOCKED_TOKENS)
        /\ SignerEvents(p) = {}

----------------------------------------------------------------------------
(* Vocabulary of the broadcast properties *)

\* response.text() has resolved in invocation p
TextRead(p) == req[p].entry = "broadcastTransaction" /\ loc[p].text.kind = "string"

HasPhrase(text) == indexOf(toLowerCase(text), "transaction submitted") >= 0

\* the bytes a hex string stands for, read back digit by digit
HexDecodes(hex, bytes) ==
    /\ Len(hex) = 2 * Len(bytes)
    /\ \A i \in 1..Len(bytes) :
          16 * PosIn(HexDigits, CharAt(hex, 2 * i - 1))
             + PosIn(HexDigits, CharAt(hex, 2 * i)) = bytes[i]

(* C6: broadcast rejection carries the body.  Whenever the response text
   does not contain "transaction submitted", broadcastTransaction fails and
   the response text can be read off the failure it throws. *)
C6_RejectionCarriesBody ==
    \A p \in ProcIds :
        (TextRead(p) /\ pc[p] = "done" /\ ~HasPhrase(loc[p].text.text)) =>
            /\ out[p].kind = "throw"
            /\ indexOf(out[p].value.text, loc[p].text.text) >= 0

(* C7: broadcast success parsing.  broadcastTransaction returns a
   transaction id if and only if the response text, lower-cased, contains
   "transaction submitted"; the id is the hex encoding of the byte-reversed
   hash of the raw transaction. *)
C7_SuccessIffSubmitted ==
    \A p \in ProcIds :
        (TextRead(p) /\ pc[p] = "done") =>
            /\ out[p].kind = "return" <=> HasPhrase(loc[p].text.text)
            /\ out[p].kind = "return" =>
                  LET h == getHash(fromHex(req[p].rawTx))
                  IN HexDecodes(out[p].value.text, [i \in 1..32 |-> h[33 - i]])

(* C7, the part the code keeps: no id is returned for a text lacking the
   phrase, a raw transaction that parses gets its id exactly when the phrase
   is there, and the id is the byte-reversed hash in hex. *)
C7_ParsedTxLemma ==
    \A p \in ProcIds :
        (TextRead(p) /\ pc[p] = "done") =>
            /\ out[p].kind = "return" => HasPhrase(loc[p].text.text)
            /\ IsTxHex(req[p].rawTx) =>
                  (HasPhrase(loc[p].text.text) => out[p].kind = "return")
            /\ out[p].kind = "return" =>
                  LET h == getHash(fromHex(req[p].rawTx))
                  IN /\ out[p].value.kind = "string"
                     /\ HexDecodes(out[p].value.text,
                                   [i \in 1..32 |-> h[33 - i]])

(* C8: generateTransaction is total over the closed taxonomy.  Whatever is
   thrown during validation, signer construction or signing,
   generateTransaction does not throw: it resolves to {fee, rawTx} or to one
   of INSUFFICIENT_BTC_BALANCE, INSUFFICIENT_STX_BALANCE, LOCKED_TOKENS,
   TRANSACTION_ERROR. *)
C8_GenerateTotal ==
    \A p \in ProcIds :
        (req[p].entry = "generateTransaction" /\ pc[p] = "done") =>
            /\ out[p].kind = "return"
            /\ \/ DOMAIN out[p].value = {"fee", "rawTx"}
               \/ /\ HasError(out[p].value)
                  /\ out[p].value.type \in
                        {"INSUFFICIENT_BTC_BALANCE", "INSUFFICIENT_STX_BALANCE",
                         "LOCKED_TOKENS", "TRANSACTION_ERROR"}

(* C9: transport failures in broadcast are converted.  When the POST or the
   reading of the response body throws an exception with message m,
   broadcastTransaction throws a new plain Error whose message is m, never
   the exception it caught. *)
C9_TransportConverted ==
    \A p \in ProcIds :
        (req[p].entry = "broadcastTransaction" /\ pc[p] = "done"
           /\ loc[p].cause.kind = "Error") =>
            /\ out[p].kind = "throw"
            /\ out[p].value.kind = "Error"
            /\ out[p].value.name = "Error"
            /\ out[p].value.text = loc[p].cause.text
            /\ out[p].value # loc[p].cause

\* the reading of the body failed with a FetchError
C9_Witness ==
    \E p \in ProcIds :
        /\ req[p].entry = "broadcastTransaction"
        /\ pc[p] = "done"
        /\ log[p] = <<"fetch", "response.text">>
        /\ loc[p].cause = ErrorOf("FetchError", "connect ECONNREFUSED")
        /\ out[p] = Throw(ErrorObj("connect ECONNREFUSED"))

(* C10: signer selection is a function of walletType alone.  For every
   admitted request exactly one signer is constructed: the LedgerSigner and
   never the TrezorSigner when walletType is LEDGER, the TrezorSigner and
   never the LedgerSigner when it is TREZOR, whatever the chain state; and
   that signer is the one handed to makeTokenTransfer. *)
C10_SignerSelection ==
    \A p \in ProcIds :
        (req[p].entry = "generateTransaction" /\ PrepareReturned(p)
           /\ ~HasError(loc[p].tx)) =>
            /\ Cardinality(SignerEvents(p)) = 1
            /\ req[p].walletType = WALLET_TYPES.LEDGER =>
                  /\ "new LedgerSigner" \in Range(log[p])
                  /\ "new TrezorSigner" \notin Range(log[p])
                  /\ loc[p].signer \in {"", "LedgerSigner"}
            /\ req[p].walletType = WALLET_TYPES.TREZOR =>
                  /\ "new TrezorSigner" \in Range(log[p])
                  /\ "new LedgerSigner" \notin Range(log[p])
                  /\ loc[p].signer \in {"", "TrezorSigner"}
            /\ "makeTokenTransfer" \in Range(log[p]) => loc[p].signer # ""

\* a Trezor wallet signed with the TrezorSigner
C10_Witness ==
    \E p \in ProcIds :
        /\ req[p].entry = "generateTransaction"
        /\ req[p].walletType = WALLET_TYPES.TREZOR
        /\ pc[p] = "done"
        /\ out[p].kind = "return"
        /\ DOMAIN out[p].value = {"fee", "rawTx"}
        /\ loc[p].signer = "TrezorSigner"
        /\ "new TrezorSigner" \in Range(log[p])

----------------------------------------------------------------------------
(* C11: validation boundary.  When a chain read, the fee estimation or the
   address translation fails inside prepareTransaction called on its own,
   the caller receives an error value of the taxonomy, never the raw
   exception. *)
C11_PrepareBoundary ==
    \A p \in ProcIds :
        (req[p].entry = "prepareTransaction" /\ pc[p] = "done"
           /\ loc[p].cause # NoCause) =>
            /\ out[p].kind = "return"
            /\ HasError(out[p].value)

\* the fee estimation has resolved in invocation p
Estimated(p) == "getAccountStatus" \in Range(log[p])

(* C12: fee consistency.  The estimate is the estimator's result plus 5500,
   and that one value is compared with btcBalance in the funding gate,
   reported in the insufficient-funding error, stored in the prepared
   transfer and returned as fee by generateTransaction. *)
C12_FeeConsistency ==
    \A p \in ProcIds :
        LET l == loc[p]
        IN /\ Estimated(p) => l.estimate = l.rawEstimate + 5500
           /\ PrepareReturned(p) =>
                 /\ IsType(l.tx, "INSUFFICIENT_BTC_BALANCE") <=>
                        l.btcBalance < l.rawEstimate + 5500
                 /\ IsType(l.tx, "INSUFFICIENT_BTC_BALANCE") =>
                        l.tx.estimate = l.rawEstimate + 5500
                 /\ ~HasError(l.tx) => l.tx.estimate = l.rawEstimate + 5500
           /\ (req[p].entry = "generateTransaction" /\ pc[p] = "done"
                 /\ out[p].kind = "return" /\ ~HasError(out[p].value)) =>
                 out[p].value.fee = l.rawEstimate + 5500

\* balance 2,000,000 and raw estimate 44,500: fee 50,000
C12_Witness ==
    \E p \in ProcIds :
        /\ req[p].entry = "generateTransaction"
        /\ pc[p] = "done"
        /\ out[p].kind = "return"
        /\ ~HasError(out[p].value)
        /\ loc[p].btcBalance = 2000000
        /\ loc[p].rawEstimate = 44500
        /\ loc[p].tx.estimate = 50000
        /\ out[p].value.fee = 50000

(* C15: a TRANSACTION_ERROR returned by generateTransaction carries the
   message of the value that was thrown, never the default text put in its
   place. *)
C15_CarriesCauseMessage ==
    \A p \in ProcIds :
        (req[p].entry = "generateTransaction" /\ pc[p] = "done"
           /\ out[p].kind = "return"
           /\ IsType(out[p].value, "TRANSACTION_ERROR")) =>
            /\ loc[p].cause # NoCause
            /\ out[p].value.message = loc[p].cause.text
            /\ out[p].value.message # DefaultTransactionErrorMessage

(* C19: a failure reported by broadcastTransaction means the relay did not
   accept the transaction.  Whenever the response text that was read
   contains "transaction submitted", broadcastTransaction does not throw. *)
C19_NoFailureAfterSubmission ==
    \A p \in ProcIds :
        (req[p].entry = "broadcastTransaction" /\ pc[p] = "done"
           /\ out[p].kind = "throw") =>
            ~(TextRead(p) /\ HasPhrase(loc[p].text.text))

(* C20: PENDING_CONFIRMATIONS is never produced.  No invocation of
   prepareTransaction, generateTransaction or broadcastTransaction returns
   or throws a PENDING_CONFIRMATIONS value, whatever the chain state. *)
C20_PendingUnreachable ==
    \A p \in ProcIds :
        /\ ~IsType(out[p].value, "PENDING_CONFIRMATIONS")
        /\ ~IsType(loc[p].tx, "PENDING_CONFIRMATIONS")
        /\ out[p].value # PENDING_CONFIRMATIONS

\* funding that is there but too small comes back as INSUFFICIENT_BTC_BALANCE
C20_Witness ==
    \E p \in ProcIds :
        /\ pc[p] = "done"
        /\ out[p].kind = "return"
        /\ IsType(out[p].value, "INSUFFICIENT_BTC_BALANCE")
        /\ out[p].value.btcBalance > 0

----------------------------------------------------------------------------
(* Vocabulary of the ordering properties *)

Count(seq, e) == Cardinality({i \in DOMAIN seq : seq[i] = e})

\* position of the first e in seq, 0 when absent
FirstAt(seq, e) ==
    IF e \in Range(seq)
    THEN CHOOSE i \in DOMAIN seq :
            seq[i] = e /\ \A j \in 1..(i - 1) : seq[j] # e
    ELSE 0

IsPrefix(a, b) == Len(a) <= Len(b) /\ a = SubSeq(b, 1, Len(a))

OnceEvents ==
    {"getUTXOs", "estimateTokenTransfer", "getAccountStatus",
     "getAccountBalance", "getBlockHeight", "new LedgerSigner",
     "new TrezorSigner", "makeTokenTransfer", "fetch", "response.text"}

(* C14: no automatic retry.  In one invocation every chain read, the fee
   estimation, makeTokenTransfer and the POST are issued at most once; once
   something has been thrown the invocation has ended, and an ended
   invocation issues nothing more and keeps its result. *)
C14_NoRetry ==
    [][\A p \in ProcIds :
          /\ \A e \in OnceEvents : Count(log'[p], e) <= 1
          /\ loc'[p].cause # NoCause => pc'[p] = "done"
          /\ pc[p] = "done" =>
                pc'[p] = "done" /\ log'[p] = log[p] /\ out'[p] = out[p]]_vars

\* signing failed after every step had been issued once
C14_Witness ==
    \E p \in ProcIds :
        /\ req[p].entry = "generateTransaction"
        /\ pc[p] = "done"
        /\ loc[p].cause = ErrorOf("FetchError", "connect ECONNREFUSED")
        /\ IsType(out[p].value, "TRANSACTION_ERROR")
        /\ Count(log[p], "makeTokenTransfer") = 1
        /\ Count(log[p], "getUTXOs") = 1

PrepareOrder ==
    <<"c32ToB58", "c32ToB58", "getUTXOs", "estimateTokenTransfer",
      "getAccountStatus", "getAccountBalance", "getBlockHeight">>

(* C18 as amended: step ordering in validation.  Both addresses are
   translated first, then the UTXOs are read, then the fee estimate is
   requested, then account status, account balance and block height are
   read in that order, and only then are the gates evaluated; the fee
   estimate is never requested before the UTXO read has completed. *)
C18_StepOrder ==
    \A p \in ProcIds :
        req[p].entry \in {"prepareTransaction", "generateTransaction"} =>
            /\ \/ IsPrefix(log[p], PrepareOrder)
               \/ IsPrefix(PrepareOrder, log[p])
            /\ PrepareReturned(p) => IsPrefix(PrepareOrder, log[p])
            /\ pc[p] = "estimateTokenTransfer" =>
                  loc[p].numUTXOs = Len(loc[p].utxos)
                    /\ "getAccountStatus" \notin Range(log[p])

C18_Witness ==
    \E p \in ProcIds :
        /\ req[p].entry = "prepareTransaction"
        /\ PrepareReturned(p)
        /\ pc[p] = "done"
        /\ log[p] = PrepareOrder

(* C18 as claimed: the whole snapshot (UTXOs, account balance, account
   status, block height) is read before the fee estimate is requested. *)
C18_EstimateAfterSnapshot ==
    \A p \in ProcIds :
        "estimateTokenTransfer" \in Range(log[p]) =>
            \A e \in {"getUTXOs", "getAccountBalance", "getAccountStatus",
                       "getBlockHeight"} :
                /\ e \in Range(log[p])
                /\ FirstAt(log[p], e) < FirstAt(log[p], "estimateTokenTransfer")

----------------------------------------------------------------------------
(* Vocabulary of the snapshot properties *)

\* the combination of values the gates of an invocation were given
Observed(l) ==
    ChainState(l.utxos, l.currentAccountBalance,
               l.accountStatus.lock_transfer_block_id, l.blockHeight)

(* C17: the snapshot reads are not atomic.  Each of the four values (UTXO
   set, account status, account balance, block height) is assigned only by
   the step that ends its own await, with the chain's value at that step,
   and the gates are evaluated on the four together as one observation. *)
C17_SeparateReads ==
    [][\A p \in ProcIds :
          LET l == loc[p]
              m == loc'[p]
          IN /\ m.utxos # l.utxos =>
                    pc[p] = "getUTXOs" /\ m.utxos = utxoSet
             /\ m.accountStatus # l.accountStatus =>
                    /\ pc[p] = "getAccountStatus"
                    /\ m.accountStatus.lock_transfer_block_id = lockBlock
             /\ m.currentAccountBalance # l.currentAccountBalance =>
                    /\ pc[p] = "getAccountBalance"
                    /\ m.currentAccountBalance = stxBalance
             /\ m.blockHeight # l.blockHeight =>
                    pc[p] = "getBlockHeight" /\ m.blockHeight = height
             /\ (l.tx = NoTx /\ m.tx # NoTx) =>
                    /\ pc[p] = "getBlockHeight"
                    /\ m.tx = CheckErrors(m)]_vars

\* a PreparedTransfer computed from values that never held together
C17_Witness ==
    \E p \in ProcIds :
        /\ req[p].entry = "prepareTransaction"
        /\ pc[p] = "done"
        /\ PrepareReturned(p)
        /\ ~HasError(loc[p].tx)
        /\ out[p] = Return(loc[p].tx)
        /\ loc[p].tx.utxos = loc[p].utxos
        /\ loc[p].tx.currentAccountBalance = loc[p].currentAccountBalance
        /\ Observed(loc[p]) \notin hist

----------------------------------------------------------------------------
(* Vocabulary of the properties of two invocations *)

SameRequest(p, q) ==
    /\ req[p].senderAddress = req[q].senderAddress
    /\ req[p].recipientAddress = req[q].recipientAddress
    /\ req[p].amount = req[q].amount
    /\ req[p].walletType = req[q].walletType
    /\ req[p].memo = req[q].memo

InFlight(p) == pc[p] \notin {"idle", "done", "off"}

\* the gates let the transfer through
Admitted(p) == PrepareReturned(p) /\ ~HasError(loc[p].tx)

(* C13: idempotence of validation.  Two runs of prepareTransaction on the
   same request, with no change of the chain state, return the same value:
   the same error with the same numbers, or PreparedTransfers equal field by
   field. *)
C13_Idempotent ==
    \A p, q \in ProcIds :
        (/\ p # q
         /\ PrepareReturned(p) /\ PrepareReturned(q)
         /\ SameRequest(p, q)
         /\ changes = 0)
        => loc[p].tx = loc[q].tx

\* the funding error, with its numbers, returned twice
C13_Witness ==
    /\ changes = 0
    /\ \A p \in ProcIds :
        /\ req[p].entry = "prepareTransaction"
        /\ pc[p] = "done"
        /\ out[p] = Return(loc[p].tx)
        /\ IsType(loc[p].tx, "INSUFFICIENT_BTC_BALANCE")
        /\ loc[p].tx.difference > 0
    /\ SameRequest(1, 2)

(* C16: concurrent sends are not serialized.  An invocation can always be
   started and each of its awaited calls can always complete, whatever the
   other invocation is doing; and the balance the gates of an invocation see
   is the chain's, from which nothing is held back for the transfer the other
   invocation has prepared, signed or posted. *)
C16_NotSerialized ==
    \A p \in ProcIds :
        /\ pc[p] = "idle" => ENABLED StartPrepare(p)
        /\ pc[p] = "getUTXOs" => ENABLED GetUTXOsResolves(p)
        /\ pc[p] = "getAccountBalance" => ENABLED GetAccountBalanceResolves(p)
        /\ pc[p] = "getBlockHeight" => ENABLED GetBlockHeightResolves(p)
        /\ pc[p] = "makeTokenTransfer" => ENABLED MakeTokenTransferResolves(p)
        /\ (PrepareReturned(p) /\ changes = 0) =>
              loc[p].currentAccountBalance = stxBalance

\* both transfers admitted, signed and posted at the same time, on a balance
\* that covers one of them
C16_Witness ==
    /\ changes = 0
    /\ \A p \in ProcIds :
        /\ Admitted(p)
        /\ req[p].senderAddress = "SPsender"
        /\ loc[p].currentAccountBalance = stxBalance
        /\ loc[p].tokenAmount <= stxBalance
        /\ "makeTokenTransfer" \in Range(log[p])
        /\ req[p].entry = "broadcastTransaction"
        /\ req[p].rawTx \in SignedTxs
        /\ pc[p] = "text"
    /\ loc[1].tokenAmount + loc[2].tokenAmount > stxBalance

----------------------------------------------------------------------------
(* C21: the app reducer as a state machine.  Over any sequence of actions,
   terms never goes back from true to false and only ACCEPT_TERMS changes
   it; TOGGLE_MODAL_CLOSE leaves keepModalOpen false and
   TOGGLE_MODAL_KEEP_OPEN leaves it true, a second application of either
   changing nothing; TOGGLE_MODAL negates keepModalOpen and a second
   application restores it; every other type, unknown ones included, leaves
   both fields as they were. *)
C21_ReducerFrame ==
    [][LET type == dispatched'
           flag(t, n) == reducer(app', t, n).keepModalOpen
       IN /\ app.terms => app'.terms
          /\ type = ACCEPT_TERMS => app'.terms
          /\ type # ACCEPT_TERMS => app'.terms = app.terms
          /\ type = TOGGLE_MODAL_CLOSE => ~app'.keepModalOpen
          /\ type = TOGGLE_MODAL_KEEP_OPEN => app'.keepModalOpen
          /\ type = TOGGLE_MODAL => app'.keepModalOpen = ~app.keepModalOpen
          /\ type \notin {TOGGLE_MODAL, TOGGLE_MODAL_CLOSE,
                          TOGGLE_MODAL_KEEP_OPEN} =>
                app'.keepModalOpen = app.keepModalOpen
          /\ \A n \in Times :
                /\ type \in {TOGGLE_MODAL_CLOSE, TOGGLE_MODAL_KEEP_OPEN} =>
                      /\ flag(type, n) = app'.keepModalOpen
                      /\ reducer(app', type, n).terms = app'.terms
                /\ type = TOGGLE_MODAL =>
                      /\ flag(type, n) = app.keepModalOpen
                      /\ reducer(app', type, n).terms = app.terms]_vars

\* the terms were accepted while the modal was kept open, and a later
\* TOGGLE_MODAL_CLOSE has closed the modal and left the terms accepted
C21_Witness ==
    /\ dispatched = TOGGLE_MODAL_CLOSE
    /\ app.terms
    /\ ~app.keepModalOpen
    /\ app.appTime = MaxTime

====
